---- MODULE Spec2Model ----
(***************************************************************************)
(* Model of the Coda plugin actions of src/src/actions/askCodaTable.ts:    *)
(* the askCodaTable handler (lines 75-268) and the askCodaDocument handler *)
(* (lines 343-433).                                                        *)
(*                                                                         *)
(* Strings are sequences of atoms.  Data that the code inspects character  *)
(* by character (URL paths, page names, column names, cell text) is        *)
(* written one character per atom; the fixed literals of the program       *)
(* (error texts, "Q: ", ...) are single atoms.  Concatenation and template *)
(* literals are \o.                                                        *)
(***************************************************************************)
EXTENDS Naturals, Sequences, FiniteSets, TLC

VARIABLES
    pc,          \* position of the running function / handler
    handlerKind, \* which exported handler runs: "askCodaTable" or "askCodaDocument"
    input,       \* the input parameters of the running function
    doc,         \* what the Coda API serves for the document
    inflight,    \* outbound requests issued and not yet answered
    calls,       \* every outbound request issued so far, in order
    locals,      \* the handler's local variables
    cause,       \* the error a step raised, as it was before any catch rewrote it
    outcome      \* what the function returned or threw

vars == <<pc, handlerKind, input, doc, inflight, calls, locals, cause, outcome>>

-----------------------------------------------------------------------------
(* Bounds *)

MaxSegLen == 5     \* longest second path segment of a URL
MaxRows == 2       \* most rows in one page of rows

-----------------------------------------------------------------------------
(* String helpers (String.prototype methods used by the code) *)

RECURSIVE SplitFrom(_, _, _)
\* s.split(sep) for a one-character separator: the pieces between separators,
\* empty pieces included.  cur is the piece being collected.
SplitFrom(s, sep, cur) ==
    IF s = <<>> THEN <<cur>>
    ELSE IF Head(s) = sep THEN <<cur>> \o SplitFrom(Tail(s), sep, <<>>)
    ELSE SplitFrom(Tail(s), sep, Append(cur, Head(s)))

Split(s, sep) == SplitFrom(s, sep, <<>>)

\* array.filter(Boolean) on an array of strings: drops the empty strings
FilterNonEmpty(parts) == SelectSeq(parts, LAMBDA p : p # <<>>)

\* s.startsWith(c) for a one-character c
StartsWithChar(s, c) == Len(s) > 0 /\ Head(s) = c

\* s.includes(sub)
Includes(s, sub) ==
    \E i \in 1..(Len(s) + 1) :
        /\ i + Len(sub) - 1 <= Len(s)
        /\ SubSeq(s, i, i + Len(sub) - 1) = sub

Whitespace == {" ", "\n"}

RECURSIVE TrimStart(_)
TrimStart(s) ==
    IF s # <<>> /\ Head(s) \in Whitespace THEN TrimStart(Tail(s)) ELSE s

RECURSIVE TrimEnd(_)
TrimEnd(s) ==
    IF s # <<>> /\ s[Len(s)] \in Whitespace
    THEN TrimEnd(SubSeq(s, 1, Len(s) - 1)) ELSE s

\* s.trim()
Trim(s) == TrimEnd(TrimStart(s))

UpperToLower ==
    [c \in {"A", "E", "I", "M", "N", "O", "P", "Q", "R", "S", "T", "U", "W"} |->
        CASE c = "A" -> "a" [] c = "E" -> "e" [] c = "I" -> "i"
          [] c = "M" -> "m" [] c = "N" -> "n" [] c = "O" -> "o"
          [] c = "P" -> "p" [] c = "Q" -> "q" [] c = "R" -> "r"
          [] c = "S" -> "s" [] c = "T" -> "t" [] c = "U" -> "u"
          [] c = "W" -> "w"]

\* s.toLowerCase()
ToLowerCase(s) ==
    [i \in 1..Len(s) |-> IF s[i] \in DOMAIN UpperToLower THEN UpperToLower[s[i]] ELSE s[i]]

-----------------------------------------------------------------------------
(* Results of a function: a returned value or a thrown Error *)

Returned(v) == [kind |-> "returned", value |-> v]
Thrown(msg) == [kind |-> "thrown", message |-> msg]
NoOutcome == [kind |-> "none"]

\* no step has failed
NoCause == [kind |-> "none"]

-----------------------------------------------------------------------------
(* extractIdsFromUrl, on the pathname of the parsed URL *)

InvalidUrlFormat == <<"Invalid Coda URL format">>
UnableToExtractDocId == <<"Unable to extract Doc ID from the provided URL">>

extractIdsFromUrl(pathname) ==
    LET pathParts == FilterNonEmpty(Split(pathname, "/")) IN
    IF Len(pathParts) < 2 THEN Thrown(InvalidUrlFormat)
    ELSE IF pathParts[1] = <<"d">>
    THEN LET docIdParts == Split(pathParts[2], "_") IN
         IF Len(docIdParts) > 1
         THEN LET last == docIdParts[Len(docIdParts)]
                  docId == IF StartsWithChar(last, "d") THEN Tail(last) ELSE last
                  pageName == IF Len(pathParts) >= 3 THEN pathParts[3] ELSE <<>>
              IN Returned([docId |-> docId, pageName |-> pageName])
         ELSE Thrown(UnableToExtractDocId)
    ELSE Thrown(InvalidUrlFormat)

-----------------------------------------------------------------------------
(* Specification SpecUrl: extractIdsFromUrl applied to bounded URL paths *)

SegChars == {"d", "_", "a"}

\* all strings over SegChars of length 0..n
SegsUpTo(n) == UNION {[1..k -> SegChars] : k \in 0..n}

FirstSegs == {<<>>, <<"d">>, <<"a">>, <<"d", "d">>}
ThirdSegs == {<<>>, <<"a">>, <<"a", "_", "d">>}

\* "/" + the segments joined by "/"
RECURSIVE JoinPath(_)
JoinPath(segs) ==
    IF segs = <<>> THEN <<>> ELSE <<"/">> \o Head(segs) \o JoinPath(Tail(segs))

UrlPaths ==
    {<<"/">>}
    \cup {JoinPath(<<a>>) : a \in FirstSegs}
    \cup {JoinPath(<<a, b>>) : a \in FirstSegs, b \in SegsUpTo(MaxSegLen)}
    \cup {JoinPath(<<a, b, c>>) : a \in {<<"d">>, <<"a">>}, b \in SegsUpTo(MaxSegLen),
                                   c \in ThirdSegs}

Idle ==
    /\ handlerKind = "none"
    /\ doc = <<>>
    /\ inflight = {}
    /\ calls = <<>>
    /\ locals = <<>>
    /\ cause = NoCause
    /\ outcome = NoOutcome

InitUrl ==
    /\ pc = "extractIdsFromUrl"
    /\ input \in {[url |-> p] : p \in UrlPaths}
    /\ Idle

CallExtractIdsFromUrl ==
    /\ pc = "extractIdsFromUrl"
    /\ pc' = "done"
    /\ outcome' = extractIdsFromUrl(input.url)
    /\ UNCHANGED <<handlerKind, input, doc, inflight, calls, locals, cause>>

NextUrl == CallExtractIdsFromUrl

SpecUrl == InitUrl /\ [][NextUrl]_vars

\* the segments of a path as the URL spells them (between the slashes)
NoSlash(s) == \A i \in 1..Len(s) : s[i] # "/"

NoUnderscore(s) == \A i \in 1..Len(s) : s[i] # "_"

\* C1: for every URL path /d/<token>_d<id>/<pageName> extractIdsFromUrl returns
\* docId = <id> and pageName = <pageName>; for every path with fewer than two
\* segments or a first segment other than "d" it throws the invalid-format error.
\* (<token> is read as the document's name slug, which holds no underscore, so
\* that <id> is everything after the first "_d" and the statement is satisfiable;
\* <id> and <pageName> are not empty and <id> neither starts nor ends with an
\* underscore.)
C1_ExtractsIdAndPageExactly ==
    pc = "done" =>
        LET url == input.url
            parts == FilterNonEmpty(Split(url, "/"))
        IN  /\ \A i \in 4..Len(url), j \in 4..Len(url) :
                  LET token == SubSeq(url, 4, i - 1)
                      id == SubSeq(url, i + 2, j - 1)
                      page == SubSeq(url, j + 1, Len(url))
                  IN  ( /\ i + 2 <= j
                        /\ SubSeq(url, 1, 3) = <<"/", "d", "/">>
                        /\ url[i] = "_" /\ url[i + 1] = "d" /\ url[j] = "/"
                        /\ NoSlash(token) /\ NoSlash(id) /\ NoSlash(page)
                        /\ NoUnderscore(token)
                        /\ id # <<>> /\ id[1] # "_" /\ id[Len(id)] # "_"
                        /\ page # <<>> )
                      => outcome = Returned([docId |-> id, pageName |-> page])
            /\ (Len(parts) < 2 \/ parts[1] # <<"d">>)
                  => outcome = Thrown(InvalidUrlFormat)

-----------------------------------------------------------------------------
(* getPageId: the page lookup over the items of the pages response *)

AlphaNum ==
    {"a", "b", "c", "d", "e", "g", "i", "m", "n", "o", "p", "q", "r", "s", "t",
     "u", "w", "y", "1", "2", "3", "4"}

\* normalize = (str) => str.toLowerCase().replace(/[^a-z0-9]/g, '')
normalize(str) == SelectSeq(ToLowerCase(str), LAMBDA c : c \in AlphaNum)

\* urlPageName.split('_')[0]
mainUrlPageName(urlPageName) == Split(urlPageName, "_")[1]

\* a faulty variant: compares the names as they are, without normalizing them
pageMatches_Raw(p, urlPageName) ==
    \/ p.name = mainUrlPageName(urlPageName)
    \/ Includes(p.browserLink, urlPageName)

\* the predicate of response.data.items.find(...)
pageMatches(p, urlPageName) ==
    \/ normalize(p.name) = normalize(mainUrlPageName(urlPageName))
    \/ Includes(p.browserLink, urlPageName)

PageNotFound(urlPageName) ==
    <<"Page \"">> \o urlPageName \o <<"\" not found in the document">>

\* Array.prototype.find: the index of the first element that satisfies the
\* predicate, 0 when there is none
FindPageIndex(items, urlPageName) ==
    IF \E i \in 1..Len(items) : pageMatches(items[i], urlPageName)
    THEN CHOOSE i \in 1..Len(items) :
            /\ pageMatches(items[i], urlPageName)
            /\ \A j \in 1..(i - 1) : ~pageMatches(items[j], urlPageName)
    ELSE 0

\* getPageId once the pages response has arrived
getPageId(items, urlPageName) ==
    LET i == FindPageIndex(items, urlPageName) IN
    IF i = 0 THEN Thrown(PageNotFound(urlPageName)) ELSE Returned(items[i].id)

-----------------------------------------------------------------------------
(* Specification SpecPage: getPageId applied to bounded page lists *)

MaxPages == 3      \* most pages in a pages response

PagePool ==
    { [id |-> "p1", name |-> <<"m", "y", "-", "p", "a", "g", "e">>,
       browserLink |-> <<"/", "m", "y", "-", "p", "a", "g", "e", "_", "s", "1">>],
      [id |-> "p2", name |-> <<"M", "y", " ", "P", "a", "g", "e">>,
       browserLink |-> <<"/", "M", "y", "-", "P", "a", "g", "e", "_", "s", "2">>],
      [id |-> "p3", name |-> <<"M", "y">>,
       browserLink |-> <<"/", "M", "y", "_", "s", "3">>],
      [id |-> "p4", name |-> <<"O", "p", "s">>,
       browserLink |-> <<"/", "O", "p", "s", "_", "s", "4">>] }

RequestedNames ==
    { <<"M", "y", " ", "P", "a", "g", "e">>,
      <<"M", "y", "-", "P", "a", "g", "e", "_", "s", "2">>,
      <<"M", "y", "_", "P", "a", "g", "e">>,
      <<"M", "y">>,
      <<"O", "p", "s", "_", "s", "4">>,
      <<"N", "o", "p", "e">>,
      <<>> }

PageLists == UNION {[1..k -> PagePool] : k \in 0..MaxPages}

InitPage ==
    /\ pc = "getPageId"
    /\ input \in {[items |-> l, urlPageName |-> n] : l \in PageLists, n \in RequestedNames}
    /\ Idle

CallGetPageId ==
    /\ pc = "getPageId"
    /\ pc' = "done"
    /\ outcome' = getPageId(input.items, input.urlPageName)
    /\ UNCHANGED <<handlerKind, input, doc, inflight, calls, locals, cause>>

NextPage == CallGetPageId

SpecPage == InitPage /\ [][NextPage]_vars

\* the claim's matching rule: the whole requested name is normalized
ClaimedMatch(p, requested) ==
    \/ normalize(p.name) = normalize(requested)
    \/ Includes(p.browserLink, requested)

\* the matching rule of the code: only the part of the requested name before its
\* first underscore is normalized and compared
AmendedMatch(p, requested) ==
    \/ normalize(p.name) = normalize(Split(requested, "_")[1])
    \/ Includes(p.browserLink, requested)

\* C9 (as claimed): getPageId returns the id of the first page, in list order, whose
\* normalized name equals the normalized requested name or whose browser link
\* contains the raw requested name; with no such page it throws "page not found".
C9_FirstMatchOnWholeName ==
    pc = "done" =>
        LET items == input.items
            n == input.urlPageName
            hits == {i \in 1..Len(items) : ClaimedMatch(items[i], n)}
        IN  IF hits = {}
            THEN outcome = Thrown(PageNotFound(n))
            ELSE \E i \in hits : /\ \A j \in hits : i <= j
                                 /\ outcome = Returned(items[i].id)

\* C9 (amended): the same with the requested name cut at its first underscore
\* before it is normalized.
C9_FirstMatchOnMainName ==
    pc = "done" =>
        LET items == input.items
            n == input.urlPageName
            hits == {i \in 1..Len(items) : AmendedMatch(items[i], n)}
        IN  IF hits = {}
            THEN outcome = Thrown(PageNotFound(n))
            ELSE \E i \in hits : /\ \A j \in hits : i <= j
                                 /\ outcome = Returned(items[i].id)

\* a request for "My Page" answered by a page named "my-page" that is not the
\* only match: the first of several matches is returned
C9_Witness ==
    /\ pc = "done"
    /\ input.urlPageName = <<"M", "y", " ", "P", "a", "g", "e">>
    /\ Len(input.items) = 3
    /\ input.items[1].id = "p4"
    /\ input.items[2].id = "p1"
    /\ input.items[3].id = "p2"
    /\ outcome = Returned("p1")

-----------------------------------------------------------------------------
(* fetchQAContent: rendering the rows of a table *)

\* cell values of a row, as typeof sees them
Str(text) == [type |-> "string", text |-> text]
Num(n) == [type |-> "number", num |-> n]
Undefined == [type |-> "undefined"]

\* a row's values object is the sequence of its [id, value] entries, in the
\* order of Object.keys
Keys(values) == [i \in 1..Len(values) |-> values[i].id]

\* values[id]; values[undefined] and a missing key are undefined
Lookup(values, id) ==
    IF \E i \in 1..Len(values) : values[i].id = id
    THEN values[CHOOSE i \in 1..Len(values) : values[i].id = id].value
    ELSE Undefined

NoColumn == "undefined"

\* columnMap.get(id) of new Map(items.map(col => [col.id, col.name])): the name of
\* the last item with that id, or undefined
ColumnName(columns, id) ==
    IF \E i \in 1..Len(columns) : columns[i].id = id
    THEN Str(columns[CHOOSE i \in 1..Len(columns) :
                /\ columns[i].id = id
                /\ \A j \in (i + 1)..Len(columns) : columns[j].id # id].name)
    ELSE Undefined

\* a faulty variant: the column name is searched as it is, without lower-casing it
NameIncludes_CaseSensitive(columns, id, word) ==
    LET columnName == ColumnName(columns, id) IN
    columnName.type = "string" /\ Includes(columnName.text, word)

\* typeof columnName === 'string' && columnName.toLowerCase().includes(word)
NameIncludes(columns, id, word) ==
    LET columnName == ColumnName(columns, id) IN
    columnName.type = "string" /\ Includes(ToLowerCase(columnName.text), word)

\* keys.find(id => ...): the first key whose column name includes the word
FindColumn(columns, keys, word) ==
    IF \E i \in 1..Len(keys) : NameIncludes(columns, keys[i], word)
    THEN keys[CHOOSE i \in 1..Len(keys) :
                /\ NameIncludes(columns, keys[i], word)
                /\ \A j \in 1..(i - 1) : ~NameIncludes(columns, keys[j], word)]
    ELSE NoColumn

WordQuestion == <<"q", "u", "e", "s", "t", "i", "o", "n">>
WordAnswer == <<"a", "n", "s", "w", "e", "r">>

\* `Q: ${question}\nA: ${answer}\n\n`
QABlock(question, answer) ==
    <<"Q: ">> \o question \o <<"\n", "A: ">> \o answer \o <<"\n", "\n">>

\* the body of either row loop: what one row appends to qaContent
RenderRow(row, questionId, answerId) ==
    LET question == Lookup(row.values, questionId)
        answer == Lookup(row.values, answerId)
    IN  IF question.type = "string" /\ answer.type = "string"
        THEN QABlock(question.text, answer.text)
        ELSE <<>>

RECURSIVE RenderRows(_, _, _)
RenderRows(rows, questionId, answerId) ==
    IF rows = <<>> THEN <<>>
    ELSE RenderRow(Head(rows), questionId, answerId)
            \o RenderRows(Tail(rows), questionId, answerId)

\* columnIds[i] of the fallback branch
KeyAt(keys, i) == IF i <= Len(keys) THEN keys[i] ELSE NoColumn

\* what one iteration of the table loop appends to qaContent, given the items of
\* the columns response and of the rows response
RenderTable(columns, rows) ==
    IF Len(rows) > 0
    THEN LET keys == Keys(rows[1].values)
             questionColumn == FindColumn(columns, keys, WordQuestion)
             answerColumn == FindColumn(columns, keys, WordAnswer)
         IN  IF questionColumn # NoColumn /\ answerColumn # NoColumn
             THEN RenderRows(rows, questionColumn, answerColumn)
             ELSE RenderRows(rows, KeyAt(keys, 1), KeyAt(keys, 2))
    ELSE <<>>

\* what the rows endpoint answers for a table when asked for its page pageNo
\* (a request without a page token asks for page 1): the rows of that page, and a
\* continuation token (0 for none) when more pages follow
RowsResponse(table, pageNo) ==
    [items |-> table.rowPages[pageNo],
     nextPageToken |-> IF pageNo < Len(table.rowPages) THEN pageNo + 1 ELSE 0]

\* fetchQAContent when every request succeeds: tables is the sequence, in the
\* order of tableIds, of what the API serves for each table.  The rows request
\* carries no page token and the response's token is not read.
RECURSIVE RenderTables(_)
RenderTables(tables) ==
    IF tables = <<>> THEN <<>>
    ELSE RenderTable(Head(tables).columns, RowsResponse(Head(tables), 1).items)
            \o RenderTables(Tail(tables))

fetchQAContent(tables) == Trim(RenderTables(tables))

-----------------------------------------------------------------------------
(* Specification SpecQA: fetchQAContent applied to bounded tables *)

NameQuestion == <<"Q", "u", "e", "s", "t", "i", "o", "n">>
NameAnswer == <<"A", "n", "s", "w", "e", "r">>
NameAnswers == <<"A", "N", "S", "W", "E", "R", "S">>
NameTopic == <<"T", "o", "p", "i", "c">>
NameNotes == <<"N", "o", "t", "e", "s">>

ColumnNames == {NameQuestion, NameAnswer, NameAnswers, NameTopic}

ColumnIds == <<"c1", "c2", "c3">>

WhatIsX == <<"W", "h", "a", "t", " ", "i", "s", " ", "X", "?">>
XIsY == <<"X", " ", "i", "s", " ", "Y", ".">>
NotApplicable == <<"n", "/", "a">>

\* the text a cell of column c holds in row r when it holds text: the same
\* text down a column, with the row number attached from the second row on
CellText(c, r) ==
    (CASE c = 1 -> WhatIsX [] c = 2 -> XIsY [] OTHER -> NotApplicable)
        \o (IF r = 1 THEN <<>> ELSE <<"#", ToString(r)>>)

CellKinds == {"text", "number"}

\* the rows the API serves for a table of k columns, given for every cell whether
\* it holds text or a number: every row carries one entry per column, in column
\* order
RowsOf(k, kinds) ==
    [r \in 1..Len(kinds) |->
        [values |-> [c \in 1..k |->
            [id |-> ColumnIds[c],
             value |-> IF kinds[r][c] = "text" THEN Str(CellText(c, r)) ELSE Num(7)]]]]

ColumnsOf(names) == [c \in 1..Len(names) |-> [id |-> ColumnIds[c], name |-> names[c]]]

\* a single-page table
QATable(names, kinds) ==
    [id |-> "t1", parent |-> "p1", columns |-> ColumnsOf(names),
     rowPages |-> <<RowsOf(Len(names), kinds)>>]

\* fetchQAContent is given one table of 1..3 columns and 0..MaxRows rows
InitQA ==
    /\ pc = "fetchQAContent"
    /\ \E k \in 1..3, n \in 0..MaxRows :
          \E names \in [1..k -> ColumnNames], kinds \in [1..n -> [1..k -> CellKinds]] :
              input = [tables |-> <<QATable(names, kinds)>>]
    /\ Idle

CallFetchQAContent ==
    /\ pc = "fetchQAContent"
    /\ pc' = "done"
    /\ outcome' = Returned(fetchQAContent(input.tables))
    /\ UNCHANGED <<handlerKind, input, doc, inflight, calls, locals, cause>>

NextQA == CallFetchQAContent

SpecQA == InitQA /\ [][NextQA]_vars

\* the claim's reading of a table, from the column list in document order
HasNamed(columns, word) ==
    \E i \in 1..Len(columns) : Includes(ToLowerCase(columns[i].name), word)

FirstNamed(columns, word) ==
    columns[CHOOSE i \in 1..Len(columns) :
        /\ Includes(ToLowerCase(columns[i].name), word)
        /\ \A j \in 1..(i - 1) : ~Includes(ToLowerCase(columns[j].name), word)].id

\* the rows of a table that carry text in both columns, rendered as the claim says
RECURSIVE ClaimedBlocks(_, _, _)
ClaimedBlocks(rows, q, a) ==
    IF rows = <<>> THEN <<>>
    ELSE LET qv == Lookup(Head(rows).values, q)
             av == Lookup(Head(rows).values, a)
         IN  (IF qv.type = "string" /\ av.type = "string"
              THEN <<"Q: ">> \o qv.text \o <<"\n", "A: ">> \o av.text \o <<"\n", "\n">>
              ELSE <<>>)
             \o ClaimedBlocks(Tail(rows), q, a)

C4_WitnessFallback ==
    /\ pc = "done"
    /\ Len(input.tables[1].columns) = 3
    /\ input.tables[1].columns[1].name = NameTopic
    /\ input.tables[1].columns[2].name = NameAnswers
    /\ input.tables[1].columns[3].name = NameTopic
    /\ outcome.value = <<"Q: ">> \o WhatIsX \o <<"\n", "A: ">> \o XIsY

-----------------------------------------------------------------------------
(* The chat completion and what the two variants make of it *)

Null == [type |-> "null"]

Nullish(v) == v.type \in {"undefined", "null"}

\* completion.choices[0]?.message?.content?.trim()
FirstChoiceText(completion) ==
    IF Len(completion.choices) = 0 THEN Undefined
    ELSE LET message == completion.choices[1].message IN
         IF Nullish(message) THEN Undefined
         ELSE IF Nullish(message.content) THEN Undefined
         ELSE Str(Trim(message.content.text))

NoResponseGenerated == <<"No response generated">>

\* the return statement of getOpenAiAnswer: text ?? "No response generated"
getOpenAiAnswer(completion) ==
    LET text == FirstChoiceText(completion) IN
    IF Nullish(text) THEN NoResponseGenerated ELSE text.text

OpenAiResponseEmpty == <<"OpenAI response is empty.">>

\* askOpenAI after the completion arrived: if (!messageContent) throw
askOpenAI(completion) ==
    LET messageContent == FirstChoiceText(completion) IN
    IF Nullish(messageContent) \/ messageContent.text = <<>>
    THEN Thrown(OpenAiResponseEmpty)
    ELSE Returned(messageContent.text)

\* `Failed to get OpenAI answer: ${errorMessage}`
FailedToGetOpenAiAnswer(errorMessage) == <<"Failed to get OpenAI answer: ">> \o errorMessage

-----------------------------------------------------------------------------
(* The handlers' catch clauses and the errors of the Coda requests *)

\* a faulty variant: the error is re-thrown as it was caught, without the prefix
CatchAndWrap_NoPrefix(kind, errorMessage) == Thrown(errorMessage)

\* catch (error) { throw new Error(`<prefix>${error.message}`) } of each handler
CatchAndWrap(kind, errorMessage) ==
    IF kind = "askCodaTable"
    THEN Thrown(<<"Failed to process the request: ">> \o errorMessage)
    ELSE Thrown(<<"Error occurred: ">> \o errorMessage)

HttpStatuses == {200, 401, 500}

\* the message of the error axios rejects with for a non-2xx status
AxiosError(status) == <<"Request failed with status code ", ToString(status)>>

Unauthorized == <<"Unauthorized: Please check your API key or document permissions.">>
FailedToRetrieveRows == <<"Failed to retrieve table rows from Coda.">>
NoRowsFound == <<"No rows found in the table.">>
ContentTooShort == <<"The extracted content is too short or insufficient.">>

\* a faulty variant: the catch passes the error on as it caught it
fetchCodaTableRowsError_Rethrow(status, errorMessage) == errorMessage

\* the catch clause of fetchCodaTableRows: status is the HTTP status of the failed
\* request, or 200 when the error was thrown for an empty response body
fetchCodaTableRowsError(status, errorMessage) ==
    IF status = 401 THEN Unauthorized ELSE FailedToRetrieveRows

-----------------------------------------------------------------------------
(* askCodaDocument: the combined content of the hardcoded table *)

GridTableId == "grid-n_-oLU0toU"
QuestionColumnId == "c-VNOaxJ-We5"
AnswerColumnId == "c-FeXd2vbanx"

\* JavaScript truthiness of a cell value
Truthy(v) ==
    CASE v.type = "string" -> v.text # <<>>
      [] v.type = "number" -> v.num # 0
      [] OTHER -> FALSE

\* `${v}` for a truthy cell value
ToText(v) == IF v.type = "string" THEN v.text ELSE <<ToString(v.num)>>

\* the forEach of the askCodaDocument handler
RECURSIVE CombineRows(_)
CombineRows(items) ==
    IF items = <<>> THEN <<>>
    ELSE LET question == Lookup(Head(items).values, QuestionColumnId)
             answer == Lookup(Head(items).values, AnswerColumnId)
         IN  (IF Truthy(question) /\ Truthy(answer)
              THEN QABlock(ToText(question), ToText(answer))
              ELSE <<>>)
             \o CombineRows(Tail(items))

\* string.length: the literals "Q: " and "A: " count three characters, every
\* other atom one
RECURSIVE CharLen(_)
CharLen(str) ==
    IF str = <<>> THEN 0
    ELSE (IF Head(str) \in {"Q: ", "A: "} THEN 3 ELSE 1) + CharLen(Tail(str))

MinContentLength == 5

-----------------------------------------------------------------------------
(* Specification Spec: one invocation of a handler against the two services *)

MaxDocTables == 2  \* most tables the document holds

\* an outbound request; pageToken 0 is a request without a page token
Req(api, table) == [api |-> api, table |-> table, pageToken |-> 0]

\* the error was not the failure of a request
NoRequest == [api |-> "none", table |-> "-", pageToken |-> 0]

PageOps ==
    [id |-> "p4", name |-> <<"O", "p", "s">>,
     browserLink |-> <<"/", "O", "p", "s", "_", "s", "4">>]
PageMy ==
    [id |-> "p3", name |-> <<"M", "y">>,
     browserLink |-> <<"/", "M", "y", "_", "s", "3">>]

TextRow(r) ==
    [values |-> <<[id |-> "c1", value |-> Str(CellText(1, r))],
                  [id |-> "c2", value |-> Str(CellText(2, r))]>>]

QAColumns == <<[id |-> "c1", name |-> NameQuestion], [id |-> "c2", name |-> NameAnswer]>>
PlainColumns == <<[id |-> "c1", name |-> NameTopic], [id |-> "c2", name |-> NameNotes]>>

\* a row whose first cell is a number, and a row whose second cell ends with a space
NumberRow(r) ==
    [values |-> <<[id |-> "c1", value |-> Num(7)],
                  [id |-> "c2", value |-> Str(CellText(2, r))]>>]

PaddedRow(r) ==
    [values |-> <<[id |-> "c1", value |-> Str(CellText(1, r))],
                  [id |-> "c2", value |-> Str(CellText(2, r) \o <<" ">>)]>>]

\* the tables a document may hold: a one-page table, a two-page table and a table
\* with a number cell and a padded cell on page "Ops", and a table on another page
TablePool ==
    { [id |-> "t1", parent |-> "p4", columns |-> QAColumns, rowPages |-> <<<<TextRow(1)>>>>],
      [id |-> "t2", parent |-> "p4", columns |-> PlainColumns,
       rowPages |-> <<<<TextRow(1)>>, <<TextRow(2)>>>>],
      [id |-> "t4", parent |-> "p4", columns |-> QAColumns,
       rowPages |-> <<<<NumberRow(1), PaddedRow(2)>>>>],
      [id |-> "t3", parent |-> "p3", columns |-> QAColumns, rowPages |-> <<<<TextRow(3)>>>>] }

\* sequences of distinct tables
TableLists ==
    {l \in UNION {[1..k -> TablePool] : k \in 0..MaxDocTables} :
        \A i, j \in 1..Len(l) : i # j => l[i] # l[j]}

\* the documents askCodaTable is run against
Docs == {[pages |-> <<PageMy, PageOps>>, tables |-> l] : l \in TableLists}

\* what the rows endpoint serves for the hardcoded table of askCodaDocument: no
\* body, no rows, rows with and without both cells
GridRow(q, a) ==
    [values |-> <<[id |-> QuestionColumnId, value |-> q], [id |-> AnswerColumnId, value |-> a]>>]

GridBodies ==
    { Null,
      [type |-> "object", items |-> <<>>],
      [type |-> "object", items |-> <<GridRow(Str(WhatIsX), Str(XIsY))>>],
      [type |-> "object", items |-> <<GridRow(Str(WhatIsX), Str(<<>>)),
                                      GridRow(Str(WhatIsX), Num(7))>>] }

UrlWithPage == <<"/", "d", "/", "x", "_", "d", "a", "b", "/", "O", "p", "s", "_", "s", "4">>
UrlUnknownPage == <<"/", "d", "/", "x", "_", "d", "a", "b", "/", "N", "o", "p", "e">>
UrlWithoutPage == <<"/", "d", "/", "x", "_", "d", "a", "b">>
UrlFoo == <<"/", "f", "o", "o">>

NoInstructions == Undefined
BeBrief == Str(<<"B", "e", " ", "b", "r", "i", "e", "f">>)

TableInputs ==
    {[codaUrl |-> u, instructions |-> i] :
        u \in {UrlWithPage, UrlUnknownPage, UrlWithoutPage, UrlFoo},
        i \in {NoInstructions, BeBrief}}

\* the completions the chat endpoint may answer with
Completions ==
    { [choices |-> <<>>],
      [choices |-> <<[message |-> Undefined]>>],
      [choices |-> <<[message |-> [type |-> "object", content |-> Null]]>>],
      [choices |-> <<[message |-> [type |-> "object", content |-> Str(<<" ", " ">>)]]>>],
      [choices |-> <<[message |-> [type |-> "object",
                                   content |-> Str(<<" ", "X", " ", "i", "s", " ", "Y", ".", "\n">>)]]>>] }

\* the messages of the errors the completion call may reject with
OpenAiErrors == {<<"401 Incorrect API key provided">>, <<"Connection error.">>}

NoLocals ==
    [docId |-> <<>>, pageName |-> <<>>, pageId |-> "", tableIds |-> <<>>, tableIdx |-> 0,
     qaContent |-> <<>>, completion |-> Null]

Init ==
    /\ pc = "start"
    /\ \/ /\ handlerKind = "askCodaTable"
          /\ input \in TableInputs
          /\ doc \in Docs
       \/ /\ handlerKind = "askCodaDocument"
          /\ input = [codaDocumentId |-> <<"a", "b">>]
          /\ doc \in {[grid |-> b] : b \in GridBodies}
    /\ inflight = {}
    /\ calls = <<>>
    /\ locals = NoLocals
    /\ cause = NoCause
    /\ outcome = NoOutcome

\* an await of an outbound request: the request goes out and the function is
\* suspended at position nextPc
Issue(req, nextPc, newLocals) ==
    /\ pc' = nextPc
    /\ locals' = newLocals
    /\ inflight' = {req}
    /\ calls' = Append(calls, req)
    /\ UNCHANGED <<outcome, cause>>

\* the error raised at a step reaches the handler's catch as caughtMessage and
\* the handler rejects; request is the failed request, or NoRequest
Raise(request, status, originalMessage, caughtMessage) ==
    /\ pc' = "done"
    /\ inflight' = {}
    /\ cause' = [kind |-> "error", request |-> request, status |-> status,
                 message |-> originalMessage, caught |-> caughtMessage]
    /\ outcome' = CatchAndWrap(handlerKind, caughtMessage)
    /\ UNCHANGED <<calls, locals>>

\* return { textResponse: answer }
Return(answer, newLocals) ==
    /\ pc' = "done"
    /\ inflight' = {}
    /\ locals' = newLocals
    /\ outcome' = Returned([textResponse |-> answer])
    /\ UNCHANGED <<calls, cause>>

\* the request awaited at the current position
Awaited == CHOOSE r \in inflight : TRUE

\* handler of askCodaTable up to its first await: extractIdsFromUrl, then the
\* pages request of getPageId
Invoke ==
    /\ pc = "start" /\ handlerKind = "askCodaTable"
    /\ LET ids == extractIdsFromUrl(input.codaUrl) IN
       IF ids.kind = "thrown"
       THEN Raise(NoRequest, 0, ids.message, ids.message)
       ELSE Issue(Req("pages", "-"), "getPageId",
                  [locals EXCEPT !.docId = ids.value.docId, !.pageName = ids.value.pageName])
    /\ UNCHANGED <<handlerKind, input, doc>>

\* the pages response arrives: getPageId finds the page, getPageDetails asks for it
RecvPages ==
    /\ pc = "getPageId"
    /\ \E status \in HttpStatuses :
          IF status # 200
          THEN Raise(Awaited, status, AxiosError(status), AxiosError(status))
          ELSE LET page == getPageId(doc.pages, locals.pageName) IN
               IF page.kind = "thrown"
               THEN Raise(NoRequest, 0, page.message, page.message)
               ELSE Issue(Req("pageDetails", "-"), "getPageDetails",
                          [locals EXCEPT !.pageId = page.value])
    /\ UNCHANGED <<handlerKind, input, doc>>

\* the page details arrive (and are not used): fetchTableIds asks for the tables
RecvPageDetails ==
    /\ pc = "getPageDetails"
    /\ \E status \in HttpStatuses :
          IF status # 200
          THEN Raise(Awaited, status, AxiosError(status), AxiosError(status))
          ELSE Issue(Req("tables", "-"), "fetchTableIds", locals)
    /\ UNCHANGED <<handlerKind, input, doc>>

\* response.data.items.filter(table => table.parent?.id === pageId).map(table => table.id)
FilterTableIds(tables, pageId) ==
    LET filteredTables == SelectSeq(tables, LAMBDA table : table.parent = pageId)
    IN  [i \in 1..Len(filteredTables) |-> filteredTables[i].id]

\* the table of the document with the given id
TableById(id) == CHOOSE t \in {doc.tables[i] : i \in 1..Len(doc.tables)} : t.id = id

\* a faulty variant: the loop stops after its first table
ContinueFetchQAContent_FirstTableOnly(tableIds, idx, qaContent) ==
    IF idx <= Len(tableIds) /\ idx <= 1
    THEN Issue(Req("columns", tableIds[idx]), "columns",
               [locals EXCEPT !.tableIds = tableIds, !.tableIdx = idx, !.qaContent = qaContent])
    ELSE Issue(Req("completion", "-"), "getOpenAiAnswer",
               [locals EXCEPT !.tableIds = tableIds, !.tableIdx = idx,
                              !.qaContent = Trim(qaContent)])

\* the head of the for loop of fetchQAContent: the columns request of the next
\* table, or, past the last table, return qaContent.trim() and the completion
\* request of getOpenAiAnswer
ContinueFetchQAContent(tableIds, idx, qaContent) ==
    IF idx <= Len(tableIds)
    THEN Issue(Req("columns", tableIds[idx]), "columns",
               [locals EXCEPT !.tableIds = tableIds, !.tableIdx = idx, !.qaContent = qaContent])
    ELSE Issue(Req("completion", "-"), "getOpenAiAnswer",
               [locals EXCEPT !.tableIds = tableIds, !.tableIdx = idx,
                              !.qaContent = Trim(qaContent)])

\* the tables response arrives: fetchTableIds filters it and fetchQAContent starts
RecvTables ==
    /\ pc = "fetchTableIds"
    /\ \E status \in HttpStatuses :
          IF status # 200
          THEN Raise(Awaited, status, AxiosError(status), AxiosError(status))
          ELSE ContinueFetchQAContent(FilterTableIds(doc.tables, locals.pageId), 1, <<>>)
    /\ UNCHANGED <<handlerKind, input, doc>>

\* the columns of the current table arrive: its rows are asked for
RecvColumns ==
    /\ pc = "columns"
    /\ \E status \in HttpStatuses :
          IF status # 200
          THEN Raise(Awaited, status, AxiosError(status), AxiosError(status))
          ELSE Issue(Req("rows", locals.tableIds[locals.tableIdx]), "rows", locals)
    /\ UNCHANGED <<handlerKind, input, doc>>

\* the rows of the current table arrive and are rendered; the loop goes on
RecvRows ==
    /\ pc = "rows"
    /\ \E status \in HttpStatuses :
          IF status # 200
          THEN Raise(Awaited, status, AxiosError(status), AxiosError(status))
          ELSE LET table == TableById(locals.tableIds[locals.tableIdx])
                   rows == RowsResponse(table, 1).items
               IN  ContinueFetchQAContent(locals.tableIds, locals.tableIdx + 1,
                        locals.qaContent \o RenderTable(table.columns, rows))
    /\ UNCHANGED <<handlerKind, input, doc>>

\* the completion call of getOpenAiAnswer settles and the handler returns or rejects
RecvCompletion ==
    /\ pc = "getOpenAiAnswer"
    /\ \/ \E completion \in Completions :
             Return(getOpenAiAnswer(completion), [locals EXCEPT !.completion = completion])
       \/ \E errorMessage \in OpenAiErrors :
             Raise(Awaited, 0, errorMessage, FailedToGetOpenAiAnswer(errorMessage))
    /\ UNCHANGED <<handlerKind, input, doc>>

\* handler of askCodaDocument up to its first await: the rows request of
\* fetchCodaTableRows for the hardcoded table
InvokeDocument ==
    /\ pc = "start" /\ handlerKind = "askCodaDocument"
    /\ Issue(Req("rows", GridTableId), "fetchCodaTableRows", locals)
    /\ UNCHANGED <<handlerKind, input, doc>>

\* the rows response of fetchCodaTableRows arrives; the handler combines the rows
\* and asks for the completion
RecvDocumentRows ==
    /\ pc = "fetchCodaTableRows"
    /\ \E status \in HttpStatuses :
          IF status # 200
          THEN Raise(Awaited, status, AxiosError(status),
                     fetchCodaTableRowsError(status, AxiosError(status)))
          ELSE IF Nullish(doc.grid)
          THEN Raise(NoRequest, 0, NoRowsFound, fetchCodaTableRowsError(status, NoRowsFound))
          ELSE LET combinedContent == CombineRows(doc.grid.items) IN
               IF CharLen(combinedContent) < MinContentLength
               THEN Raise(NoRequest, 0, ContentTooShort, ContentTooShort)
               ELSE Issue(Req("completion", "-"), "askOpenAI",
                          [locals EXCEPT !.qaContent = combinedContent])
    /\ UNCHANGED <<handlerKind, input, doc>>

\* the completion call of askOpenAI settles and the handler returns or rejects
RecvDocumentCompletion ==
    /\ pc = "askOpenAI"
    /\ \/ \E completion \in Completions :
             LET answer == askOpenAI(completion) IN
             IF answer.kind = "thrown"
             THEN Raise(NoRequest, 0, answer.message, answer.message)
             ELSE Return(answer.value, [locals EXCEPT !.completion = completion])
       \/ \E errorMessage \in OpenAiErrors :
             Raise(Awaited, 0, errorMessage, errorMessage)
    /\ UNCHANGED <<handlerKind, input, doc>>

Next ==
    \/ Invoke
    \/ RecvPages
    \/ RecvPageDetails
    \/ RecvTables
    \/ RecvColumns
    \/ RecvRows
    \/ RecvCompletion
    \/ InvokeDocument
    \/ RecvDocumentRows
    \/ RecvDocumentCompletion

Spec == Init /\ [][Next]_vars

-----------------------------------------------------------------------------
(* Claims about one invocation (specification Spec) *)

Failed == pc = "done" /\ cause.kind = "error"

CodaApis == {"pages", "pageDetails", "tables", "columns", "rows"}

\* a Coda request was answered with an HTTP error status
HttpFailed == Failed /\ cause.request # NoRequest /\ cause.status \in {401, 500}

\* how often a request occurs among the calls
Occurrences(req) == Cardinality({i \in 1..Len(calls) : calls[i] = req})

UniformPrefix == <<"Failed to process the request: ">>

\* C2 (as claimed): whichever step fails, the handler raises one error whose
\* message is "Failed to process the request: " followed by the message of the
\* error that was raised, and returns no output object.
C2_UniformFailureMessage ==
    Failed => outcome = Thrown(UniformPrefix \o cause.caught)

\* C2 (amended): a failed invocation ends with one thrown error and no output
\* object.  In askCodaTable the message is "Failed to process the request: " and
\* the raised error's message, a failed completion call being reported as "Failed
\* to get OpenAI answer: " and its message.  In askCodaDocument the prefix is
\* "Error occurred: ", and a failure of the rows request is reported by one of two
\* fixed texts.
C2_PerHandlerFailureMessage ==
    pc = "done" =>
        IF cause.kind = "none" THEN outcome.kind = "returned"
        ELSE /\ outcome.kind = "thrown"
             /\ IF handlerKind = "askCodaTable"
                THEN IF cause.request.api = "completion"
                     THEN outcome.message =
                            UniformPrefix \o <<"Failed to get OpenAI answer: ">> \o cause.message
                     ELSE outcome.message = UniformPrefix \o cause.message
                ELSE IF cause.request.api = "rows"
                          \/ cause.message = NoRowsFound
                     THEN outcome.message \in
                            { <<"Error occurred: ">> \o Unauthorized,
                              <<"Error occurred: ">> \o FailedToRetrieveRows }
                     ELSE outcome.message = <<"Error occurred: ">> \o cause.message

\* the rows request of the second table fails after the first table was
\* rendered: the handler throws and the rendered part is not returned
C2_Witness ==
    /\ Failed
    /\ handlerKind = "askCodaTable"
    /\ cause.request.api = "rows"
    /\ locals.tableIdx = 2
    /\ locals.qaContent # <<>>
    /\ outcome = Thrown(UniformPrefix \o AxiosError(500))

\* C3: for every table the rows endpoint is asked again until a response carries
\* no continuation token: every page of rows of every table of the page is
\* requested, and none twice.
C3_EveryRowsPageFetchedOnce ==
    (pc = "done" /\ handlerKind = "askCodaTable" /\ outcome.kind = "returned") =>
        \A i \in 1..Len(locals.tableIds) :
            LET table == TableById(locals.tableIds[i]) IN
            \A k \in 1..Len(table.rowPages) :
                Occurrences([api |-> "rows", table |-> table.id,
                             pageToken |-> IF k = 1 THEN 0 ELSE k]) = 1

\* C5: lookup misses are fatal.  When no page matches the requested name the
\* action fails with an error naming it, and when no table has the resolved page
\* as its parent the action fails too; in both cases the completion endpoint is
\* not called.
C5_LookupMissesAreFatal ==
    handlerKind = "askCodaTable" =>
        /\ (Failed /\ cause.message = PageNotFound(locals.pageName)) =>
                /\ outcome.kind = "thrown"
                /\ Includes(outcome.message, locals.pageName)
                /\ Occurrences(Req("completion", "-")) = 0
        /\ (Occurrences(Req("tables", "-")) = 1 /\ inflight # {Req("tables", "-")}
                /\ ~HttpFailed
                /\ FilterTableIds(doc.tables, locals.pageId) = <<>>) =>
                /\ Occurrences(Req("completion", "-")) = 0
                /\ pc = "done" /\ outcome.kind = "thrown"

\* the completion, when one was received
Received == "choices" \in DOMAIN locals.completion

\* the first choice of the received completion carries text
HasText(completion) ==
    /\ Len(completion.choices) > 0
    /\ ~Nullish(completion.choices[1].message)
    /\ ~Nullish(completion.choices[1].message.content)
    /\ Trim(completion.choices[1].message.content.text) # <<>>

\* C6: getOpenAiAnswer returns the trimmed text of the first choice when that
\* choice has text, and "No response generated" whenever the completion holds no
\* text (no choices, no message, no content, or content empty after trimming);
\* an error of the completion call is raised again.
C6_TrimmedTextOrFallback ==
    (pc = "done" /\ handlerKind = "askCodaTable") =>
        /\ Received =>
              outcome = Returned([textResponse |->
                  IF HasText(locals.completion)
                  THEN Trim(locals.completion.choices[1].message.content.text)
                  ELSE NoResponseGenerated])
        /\ (cause.kind = "error" /\ cause.request.api = "completion")
              => outcome.kind = "thrown"

\* C7 (as claimed): when a Coda request fails with an HTTP error, the action
\* fails with an error whose message contains the cause's message, and the
\* failed request is not issued again.
C7_HttpErrorKeepsCause ==
    (HttpFailed /\ cause.request.api \in CodaApis) =>
        /\ outcome.kind = "thrown"
        /\ Includes(outcome.message, cause.message)
        /\ Occurrences(cause.request) = 1

\* C7 (amended): when a Coda request fails with an HTTP error the action fails and
\* the failed request is not issued again.  In askCodaTable the message contains
\* the cause's message.  In askCodaDocument it does not: the message is "Error
\* occurred: " and a fixed text, "Unauthorized: ..." for status 401 and "Failed to
\* retrieve table rows from Coda." for any other status.
C7_HttpErrorPerHandler ==
    (HttpFailed /\ cause.request.api \in CodaApis) =>
        /\ outcome.kind = "thrown"
        /\ Occurrences(cause.request) = 1
        /\ calls[Len(calls)] = cause.request
        /\ IF handlerKind = "askCodaTable"
           THEN Includes(outcome.message, cause.message)
           ELSE /\ ~Includes(outcome.message, cause.message)
                /\ outcome.message =
                      <<"Error occurred: ">> \o
                      (IF cause.status = 401 THEN Unauthorized ELSE FailedToRetrieveRows)

\* the rows request of askCodaDocument was answered 401
C7_Witness ==
    /\ HttpFailed
    /\ handlerKind = "askCodaDocument"
    /\ cause.status = 401
    /\ cause.request = Req("rows", GridTableId)
    /\ outcome = Thrown(<<"Error occurred: ">> \o Unauthorized)

\* C8: with an instructions parameter supplied, the output is "Instructions for
\* the following content: <instructions>\n\n" followed by the unmodified
\* transcript (and without one, the transcript alone).
C8_InstructionsPrefixTranscript ==
    (pc = "done" /\ handlerKind = "askCodaTable" /\ outcome.kind = "returned"
        /\ input.instructions.type = "string") =>
        outcome.value.textResponse =
            <<"Instructions for the following content: ">> \o input.instructions.text
                \o <<"\n", "\n">> \o locals.qaContent

IsPrefix(a, b) == Len(a) <= Len(b) /\ a = SubSeq(b, 1, Len(a))

\* the column and rows requests of the tables whose parent is the resolved page,
\* table by table in the order of the document
RECURSIVE TableCalls(_)
TableCalls(tables) ==
    IF tables = <<>> THEN <<>>
    ELSE (IF Head(tables).parent = locals.pageId
          THEN <<Req("columns", Head(tables).id), Req("rows", Head(tables).id)>>
          ELSE <<>>)
         \o TableCalls(Tail(tables))

\* one request at a time, each issued after the previous one was answered, and
\* none after a failure
OneAtATime ==
    /\ Cardinality(inflight) <= 1
    /\ inflight # {} => (calls # <<>> /\ inflight = {calls[Len(calls)]})
    /\ cause.kind = "error" => inflight = {}
    /\ (cause.kind = "error" /\ cause.request # NoRequest) => calls[Len(calls)] = cause.request

\* C10 (as claimed): the calls go out one at a time in the order page list, table
\* list, then per table its column list and its rows, then the completion call;
\* never two in flight, none after a failure.
C10_PipelineOrder ==
    handlerKind = "askCodaTable" =>
        /\ OneAtATime
        /\ IsPrefix(calls, <<Req("pages", "-"), Req("tables", "-")>>
                            \o TableCalls(doc.tables) \o <<Req("completion", "-")>>)

\* C10 (amended): the same, with the page details request between the page list
\* and the table list.
C10_PipelineOrderWithPageDetails ==
    handlerKind = "askCodaTable" =>
        /\ OneAtATime
        /\ IsPrefix(calls, <<Req("pages", "-"), Req("pageDetails", "-"), Req("tables", "-")>>
                            \o TableCalls(doc.tables) \o <<Req("completion", "-")>>)
        /\ (pc = "done" /\ outcome.kind = "returned") =>
                calls = <<Req("pages", "-"), Req("pageDetails", "-"), Req("tables", "-")>>
                            \o TableCalls(doc.tables) \o <<Req("completion", "-")>>

\* an invocation over two tables that returned: eight calls, the last the completion
C10_Witness ==
    /\ pc = "done"
    /\ handlerKind = "askCodaTable"
    /\ outcome.kind = "returned"
    /\ Len(locals.tableIds) = 2
    /\ Len(calls) = 8
    /\ calls[4].api = "columns" /\ calls[5].api = "rows" /\ calls[4].table = calls[5].table
    /\ calls[6].api = "columns" /\ calls[7].api = "rows" /\ calls[6].table = calls[7].table
    /\ calls[8].api = "completion"

\* the rows of every page of a table, in order
RECURSIVE AllRows(_)
AllRows(rowPages) ==
    IF rowPages = <<>> THEN <<>> ELSE Head(rowPages) \o AllRows(Tail(rowPages))

\* the blocks of the given rows of one table: the question and answer columns
\* when both are named, the first two columns otherwise
TableBlocks(columns, rows) ==
    IF HasNamed(columns, WordQuestion) /\ HasNamed(columns, WordAnswer)
    THEN ClaimedBlocks(rows, FirstNamed(columns, WordQuestion), FirstNamed(columns, WordAnswer))
    ELSE ClaimedBlocks(rows, columns[1].id, columns[2].id)

\* the blocks of the rows of the tables of the resolved page, table by table
RECURSIVE BlocksOfAllRows(_)
BlocksOfAllRows(tables) ==
    IF tables = <<>> THEN <<>>
    ELSE (IF Head(tables).parent = locals.pageId
          THEN TableBlocks(Head(tables).columns, AllRows(Head(tables).rowPages))
          ELSE <<>>)
         \o BlocksOfAllRows(Tail(tables))

\* the same over the rows that the one rows response of each table carried
RECURSIVE BlocksOfFetchedRows(_)
BlocksOfFetchedRows(tables) ==
    IF tables = <<>> THEN <<>>
    ELSE (IF Head(tables).parent = locals.pageId
          THEN TableBlocks(Head(tables).columns, Head(Head(tables).rowPages))
          ELSE <<>>)
         \o BlocksOfFetchedRows(Tail(tables))

\* fetchQAContent has returned to askCodaTable
TranscriptReturned ==
    /\ handlerKind = "askCodaTable"
    /\ \E i \in 1..Len(calls) : calls[i].api = "completion"

\* C11: the transcript returned by fetchQAContent is exactly one block per row
\* whose two selected values are both text, rows without text in either value
\* left out, in table order and then row order, the blocks separated by one blank
\* line, with no whitespace at either end.
C11_OneBlockPerTextRow ==
    TranscriptReturned => locals.qaContent = Trim(BlocksOfAllRows(doc.tables))

\* what holds of the transcript: one block per text row among the rows that the
\* single rows response of each table carried, a row without text left out and
\* the rows after it rendered
C11_OneBlockPerFetchedTextRow ==
    TranscriptReturned => locals.qaContent = Trim(BlocksOfFetchedRows(doc.tables))

\* a returned transcript that left out a number row and kept the row after it
C11_SkippedRowReached ==
    /\ TranscriptReturned
    /\ \E i \in 1..Len(locals.tableIds) : locals.tableIds[i] = "t4"
    /\ Includes(locals.qaContent, <<"#", "2">>)

\* while the tables are processed the accumulated transcript only grows
C11_AccumulatorOnlyGrows ==
    [][(handlerKind = "askCodaTable" /\ pc \in {"columns", "rows"}
            /\ pc' \in {"columns", "rows"})
        => IsPrefix(locals.qaContent, locals.qaContent')]_vars

====
